---- MODULE Spec2Model ----
(***************************************************************************)
(* The timer engine of PomoSpace: the useTimer hook (three timer slots,    *)
(* the active kind, the 200 ms tick interval with the render closure it    *)
(* captured, the persisted record) and the settings handlers that feed it. *)
(* Wall-clock time is Date.now() in milliseconds.  One action is one event *)
(* handler or timer callback together with the re-render and the effects   *)
(* it causes.                                                              *)
(***************************************************************************)
EXTENDS Integers, Sequences, FiniteSets, TLC

VARIABLES
  now,              \* Date.now(), in ms
  mounted,          \* whether the hook is mounted (page open)
  allTimers,        \* useState<AllTimerStates>
  timeRemaining,    \* useState<number>: the displayed remaining seconds
  timerIntervalRef, \* useRef: the scheduled interval and the closure of its callback
  settings,         \* the App's settings state (persisted as pomoSpaceSettings)
  storage,          \* localStorage[TIMER_STORAGE_KEY]
  onCompleteCalls,  \* how many times onComplete has been invoked
  completedBy,      \* which callback ran the latest completeTimer
  timerMode,        \* the App's useState<string>, passed to PomodoroTimer
  timerStates,      \* second PomodoroTimer: useState of the three modes' states
  isActive,         \* second PomodoroTimer: useState<boolean>
  savedSettings,    \* localStorage['pomoSpaceSettings']
  isLoading,        \* App (startup checks): useState(true)
  reloadPending,    \* window.location.reload() has been called
  valid,            \* what validateLocalStorage returned
  advances,         \* clock advances made so far
  edits,            \* settings edits made so far
  events            \* handler calls and page loads made so far

\* The program's state, and the counters that bound the model
hookVars == <<now, mounted, allTimers, timeRemaining, timerIntervalRef, settings,
              storage, onCompleteCalls, completedBy>>
budgetVars == <<advances, edits, events>>
\* The state of the second PomodoroTimer, of the App that validates
\* localStorage at startup, and of localStorageUtils
legacyVars == <<timerStates, isActive, savedSettings, isLoading, reloadPending, valid>>
appVars == <<timerMode, legacyVars>>
vars == <<hookVars, appVars, budgetVars>>

----------------------------------------------------------------------------
(* Bounds of the model *)

MaxAdvances == 2
MaxEdits == 2
MaxEvents == 4

\* The clock at the first page load, and the steps by which it advances (ms).
Epoch == 5000000
AdvanceSteps == {500, 1500000}

\* What the user types into a duration box, and picks as long-break interval.
DurationInputs == {0, 5, 27}
IntervalInputs == {0, 2}

----------------------------------------------------------------------------
(* Types and pure helpers *)

TimerTypes == {"pomodoro", "shortBreak", "longBreak"}

\* startTime: number | null
Null == -1

Max(a, b) == IF a >= b THEN a ELSE b
Min(a, b) == IF a <= b THEN a ELSE b

\* JavaScript truthiness of a number | null
Truthy(x) == x # Null /\ x # 0

MsPerSecond == 1000
SecondsPerMinute == 60

\* Math.floor(ms / 1000)
FloorSeconds(ms) == ms \div MsPerSecond

calculateTimeRemaining(timer, t) ==
  IF ~timer.isRunning \/ ~Truthy(timer.startTime)
  THEN timer.duration - timer.elapsed
  ELSE Max(0, timer.duration - FloorSeconds(t - timer.startTime))

getDurationFromSettings(type, s) == s.timerDurations[type] * SecondsPerMinute

createDefaultTimerState(duration) ==
  [startTime |-> Null, duration |-> duration, elapsed |-> 0, isRunning |-> FALSE]

createDefaultTimerStates(s) ==
  [activeType |-> "pomodoro",
   completedPomodoros |-> 0,
   pomodoro |-> createDefaultTimerState(s.timerDurations.pomodoro * SecondsPerMinute),
   shortBreak |-> createDefaultTimerState(s.timerDurations.shortBreak * SecondsPerMinute),
   longBreak |-> createDefaultTimerState(s.timerDurations.longBreak * SecondsPerMinute)]

----------------------------------------------------------------------------
(* The persisted record.  kind "none": no item; "invalid": an item that is *)
(* not JSON; "json": an object whose fields named in missing are absent.   *)

\* The value field of a record that holds no object.
NoValue ==
  [activeType |-> "pomodoro", completedPomodoros |-> 0,
   pomodoro |-> createDefaultTimerState(0),
   shortBreak |-> createDefaultTimerState(0),
   longBreak |-> createDefaultTimerState(0)]

NoRecord == [kind |-> "none", missing |-> {}, value |-> NoValue]
NotJSON == [kind |-> "invalid", missing |-> {}, value |-> NoValue]

\* saveTimerStates: JSON.stringify of numbers, booleans, null and strings
saveTimerStates(state) == [kind |-> "json", missing |-> {}, value |-> state]

\* A loader that brings every slot back stopped
LoadSlotStopped(parsed, type, s) ==
  [parsed[type] EXCEPT !.duration = getDurationFromSettings(type, s),
                       !.isRunning = FALSE]

\* One slot of loadTimerStates: the duration is taken from the settings
\* unless the slot is the active one, running, with a truthy duration.
LoadSlot(parsed, type, s) ==
  LET slot == parsed[type] IN
  IF slot.duration = 0 \/ (parsed.activeType # type \/ ~slot.isRunning)
  THEN [slot EXCEPT !.duration = getDurationFromSettings(type, s)]
  ELSE slot

\* loadTimerStates: <<>> stands for null, <<state>> for a loaded state.
loadTimerStates(rec, s) ==
  IF rec.kind = "none" THEN <<>>
  ELSE IF rec.kind = "invalid" THEN <<>>
  ELSE IF {"pomodoro", "shortBreak", "longBreak", "activeType"} \cap rec.missing # {}
  THEN <<>>
  ELSE LET parsed == rec.value IN
       << [activeType |-> parsed.activeType,
           completedPomodoros |->
             IF "completedPomodoros" \in rec.missing THEN 0
             ELSE parsed.completedPomodoros,
           pomodoro |-> LoadSlot(parsed, "pomodoro", s),
           shortBreak |-> LoadSlot(parsed, "shortBreak", s),
           longBreak |-> LoadSlot(parsed, "longBreak", s)] >>

\* useState initialiser: loadTimerStates(settings) || createDefaultTimerStates(settings)
InitialTimerStates(rec, s) ==
  LET loaded == loadTimerStates(rec, s) IN
  IF Len(loaded) = 0 THEN createDefaultTimerStates(s) ELSE loaded[1]

----------------------------------------------------------------------------
(* The tick interval.  timerIntervalRef is <<>> for null, or <<c>> where c *)
(* is the closure of the render that scheduled the callback: the allTimers *)
(* and settings that render saw.                                           *)

NoInterval == <<>>
Closure(all, s) == [allTimers |-> all, settings |-> s]

\* A startTimerInterval that schedules nothing
startTimerIntervalNever(ref, all, s) == ref

\* startTimerInterval called in the render that saw (all, s)
startTimerInterval(ref, all, s) ==
  IF Len(ref) > 0 THEN ref ELSE << Closure(all, s) >>

\* A clearTimerInterval that leaves the scheduled interval in place
clearTimerIntervalKeeping(ref) == ref

clearTimerInterval(ref) == NoInterval

\* The dependencies of the interval effect
IntervalDeps(all) ==
  << all[all.activeType].isRunning, all[all.activeType].startTime, all.activeType >>

\* The interval effect after a re-render from oldAll to newAll: when a
\* dependency changed, the previous cleanup runs and then the effect body.
intervalEffect(ref, oldAll, newAll, s) ==
  IF IntervalDeps(oldAll) = IntervalDeps(newAll)
  THEN ref
  ELSE IF newAll[newAll.activeType].isRunning
       THEN startTimerInterval(clearTimerInterval(ref), newAll, s)
       ELSE clearTimerInterval(clearTimerInterval(ref))

----------------------------------------------------------------------------
(* completeTimer, run in the closure (cAll, cSettings), applied to the     *)
(* state prev that setAllTimers's updater receives.                        *)

\* A cadence that tests the count one session late
NextTypeOffByOne(type, completed, s) ==
  IF type = "pomodoro"
  THEN IF (completed + 1) % s.longBreakInterval = 0 THEN "longBreak" ELSE "shortBreak"
  ELSE "pomodoro"

NextType(type, completed, s) ==
  IF type = "pomodoro"
  THEN IF completed % s.longBreakInterval = 0 THEN "longBreak" ELSE "shortBreak"
  ELSE "pomodoro"

\* A completion that forgets to stop the completed slot
completeTimerStillRunning(cAll, cSettings, prev) ==
  LET activeType == cAll.activeType
      newCompletedPomodoros ==
        IF activeType = "pomodoro" THEN cAll.completedPomodoros + 1
        ELSE cAll.completedPomodoros
      nextType == NextType(activeType, newCompletedPomodoros, cSettings)
      completedTimer == [cAll[activeType] EXCEPT !.startTime = Null, !.elapsed = 0]
      updated ==
        [prev EXCEPT ![activeType] = completedTimer,
                     !.activeType = nextType,
                     !.completedPomodoros = newCompletedPomodoros]
  IN [allTimers |-> updated,
      timeRemaining |-> getDurationFromSettings(nextType, cSettings),
      notified |-> IF activeType = "pomodoro" THEN 1 ELSE 0]

completeTimer(cAll, cSettings, prev) ==
  LET activeType == cAll.activeType
      newCompletedPomodoros ==
        IF activeType = "pomodoro" THEN cAll.completedPomodoros + 1
        ELSE cAll.completedPomodoros
      nextType == NextType(activeType, newCompletedPomodoros, cSettings)
      completedTimer ==
        [cAll[activeType] EXCEPT !.startTime = Null, !.elapsed = 0, !.isRunning = FALSE]
      updated ==
        [prev EXCEPT ![activeType] = completedTimer,
                     !.activeType = nextType,
                     !.completedPomodoros = newCompletedPomodoros]
  IN [allTimers |-> updated,
      timeRemaining |-> getDurationFromSettings(nextType, cSettings),
      notified |-> IF activeType = "pomodoro" THEN 1 ELSE 0]

----------------------------------------------------------------------------
(* The settings-change effect of useTimer, in the render that saw          *)
(* (all, s), at time t.                                                    *)

\* A reconciliation that restarts the running slot at the time of the edit
ReconcileSlotRestarting(all, type, s, t) ==
  LET newDuration == s.timerDurations[type] * SecondsPerMinute
  IN IF all[type].duration # newDuration
     THEN IF all.activeType = type /\ all[type].isRunning
          THEN [all[type] EXCEPT !.duration = newDuration, !.startTime = t]
          ELSE [all[type] EXCEPT !.duration = newDuration]
     ELSE all[type]

\* One of the three per-kind blocks of the effect
ReconcileSlot(all, type, s, t) ==
  LET newDuration == s.timerDurations[type] * SecondsPerMinute
      activeTimer == all[all.activeType]
  IN IF all[type].duration # newDuration
     THEN IF all.activeType = type /\ activeTimer.isRunning
          THEN LET startTime ==
                     IF Truthy(activeTimer.startTime) THEN activeTimer.startTime ELSE t
                   elapsedSeconds == FloorSeconds(t - startTime)
               IN [all[type] EXCEPT !.duration = newDuration,
                                    !.startTime = t - (elapsedSeconds * MsPerSecond)]
          ELSE [all[type] EXCEPT !.duration = newDuration]
     ELSE all[type]

\* updatedTimers of the effect
UpdatedTimers(all, s, t) ==
  [all EXCEPT !.pomodoro = ReconcileSlot(all, "pomodoro", s, t),
              !.shortBreak = ReconcileSlot(all, "shortBreak", s, t),
              !.longBreak = ReconcileSlot(all, "longBreak", s, t)]

\* An effect that rewrites and saves the timers on every settings delivery
NeedsUpdateAlways(all, s) == TRUE

\* needsUpdate of the effect
NeedsUpdate(all, s) ==
  \E type \in TimerTypes : all[type].duration # s.timerDurations[type] * SecondsPerMinute

\* The App re-renders with newSettings; the hook's settings effect runs
\* (its dependency settings changed), then the interval effect.
\* settings.lastUpdated is a Date.now() stamp or undefined: the model keeps
\* whether it is set, which is all the hook reads of it.
SettingsChanged(newSettings) ==
  /\ settings' = newSettings
  /\ IF newSettings.lastUpdated /\ NeedsUpdate(allTimers, newSettings)
     THEN LET updatedTimers == UpdatedTimers(allTimers, newSettings, now)
              activeType == allTimers.activeType
          IN /\ allTimers' = updatedTimers
             /\ storage' = saveTimerStates(updatedTimers)
             /\ timeRemaining' =
                  IF updatedTimers[activeType].duration # allTimers[activeType].duration
                  THEN calculateTimeRemaining(updatedTimers[activeType], now)
                  ELSE timeRemaining
             /\ timerIntervalRef' =
                  intervalEffect(timerIntervalRef, allTimers, updatedTimers, newSettings)
     ELSE UNCHANGED <<allTimers, storage, timeRemaining, timerIntervalRef>>
  /\ UNCHANGED <<now, mounted, onCompleteCalls, completedBy>>

\* maxValues of the settings modal
MaxValue(type) == IF type = "shortBreak" THEN 30 ELSE 60

\* SettingsModal.updateTimerDuration(timerType, value)
updateTimerDuration(timerType, numValue) ==
  /\ mounted
  /\ IF numValue < 1
     THEN UNCHANGED vars
     ELSE SettingsChanged(
            [settings EXCEPT !.timerDurations[timerType] =
                                Min(numValue, MaxValue(timerType)),
                             !.lastUpdated = TRUE])

\* The long-break-interval input of the settings modal
changeLongBreakInterval(value) ==
  /\ mounted
  /\ IF value >= 1 /\ value <= 10
     THEN SettingsChanged([settings EXCEPT !.longBreakInterval = value])
     ELSE UNCHANGED vars

\* SettingsModal.toggleSetting / updateSoundSetting: a new settings object
\* whose durations, interval and lastUpdated are those of the old one
toggleSetting ==
  /\ mounted
  /\ SettingsChanged(settings)

----------------------------------------------------------------------------
(* The handlers the hook returns.  Each is called from the latest render,  *)
(* so activeType and activeTimer are those of the current state.           *)

startTimer ==
  /\ mounted
  /\ LET activeType == allTimers.activeType
         activeTimer == allTimers[activeType]
     IN IF activeTimer.isRunning
        THEN UNCHANGED vars
        ELSE LET updatedTimer ==
                   [activeTimer EXCEPT
                      !.startTime = now - (activeTimer.elapsed * MsPerSecond),
                      !.isRunning = TRUE]
                 updated == [allTimers EXCEPT ![activeType] = updatedTimer]
             IN /\ allTimers' = updated
                /\ storage' = saveTimerStates(updated)
                /\ timerIntervalRef' =
                     intervalEffect(
                       startTimerInterval(timerIntervalRef, allTimers, settings),
                       allTimers, updated, settings)
                /\ UNCHANGED <<now, mounted, timeRemaining, settings,
                               onCompleteCalls, completedBy>>

pauseTimer ==
  /\ mounted
  /\ LET activeType == allTimers.activeType
         activeTimer == allTimers[activeType]
     IN IF ~activeTimer.isRunning
        THEN UNCHANGED vars
        ELSE LET startTime ==
                   IF Truthy(activeTimer.startTime) THEN activeTimer.startTime ELSE now
                 elapsedSeconds == FloorSeconds(now - startTime)
                 updatedTimer ==
                   [activeTimer EXCEPT !.isRunning = FALSE, !.elapsed = elapsedSeconds]
                 updated == [allTimers EXCEPT ![activeType] = updatedTimer]
             IN /\ allTimers' = updated
                /\ storage' = saveTimerStates(updated)
                /\ timerIntervalRef' =
                     intervalEffect(clearTimerInterval(timerIntervalRef),
                                    allTimers, updated, settings)
                /\ UNCHANGED <<now, mounted, timeRemaining, settings,
                               onCompleteCalls, completedBy>>

\* A reset that starts every slot over, not only the active one
resetTimerEverySlot ==
  /\ mounted
  /\ LET fresh == createDefaultTimerStates(settings)
         updated == [fresh EXCEPT !.activeType = allTimers.activeType,
                                  !.completedPomodoros = allTimers.completedPomodoros]
     IN /\ allTimers' = updated
        /\ storage' = saveTimerStates(updated)
        /\ timeRemaining' = getDurationFromSettings(allTimers.activeType, settings)
        /\ timerIntervalRef' =
             intervalEffect(clearTimerInterval(timerIntervalRef),
                            allTimers, updated, settings)
        /\ UNCHANGED <<now, mounted, settings, onCompleteCalls, completedBy>>

resetTimer ==
  /\ mounted
  /\ LET activeType == allTimers.activeType
         activeTimer == allTimers[activeType]
         newDuration == getDurationFromSettings(activeType, settings)
         updatedTimer ==
           [activeTimer EXCEPT !.startTime = Null, !.duration = newDuration,
                               !.elapsed = 0, !.isRunning = FALSE]
         updated == [allTimers EXCEPT ![activeType] = updatedTimer]
     IN /\ allTimers' = updated
        /\ storage' = saveTimerStates(updated)
        /\ timeRemaining' = newDuration
        /\ timerIntervalRef' =
             intervalEffect(clearTimerInterval(timerIntervalRef),
                            allTimers, updated, settings)
        /\ UNCHANGED <<now, mounted, settings, onCompleteCalls, completedBy>>

changeTimerType(newType) ==
  /\ mounted
  /\ IF newType = allTimers.activeType
     THEN UNCHANGED vars
     ELSE LET updated == [allTimers EXCEPT !.activeType = newType]
              newTimer == allTimers[newType]
              cleared == clearTimerInterval(timerIntervalRef)
          IN /\ allTimers' = updated
             /\ storage' = saveTimerStates(updated)
             /\ timeRemaining' = calculateTimeRemaining(newTimer, now)
             /\ timerIntervalRef' =
                  intervalEffect(
                    IF newTimer.isRunning
                    THEN startTimerInterval(cleared, allTimers, settings)
                    ELSE cleared,
                    allTimers, updated, settings)
             /\ UNCHANGED <<now, mounted, settings, onCompleteCalls, completedBy>>

----------------------------------------------------------------------------
(* The interval callback: it reads the allTimers and activeType of the     *)
(* render that scheduled it.                                               *)

\* remaining <= 0 in the callback
CompletionDue ==
  /\ Len(timerIntervalRef) > 0
  /\ LET c == timerIntervalRef[1]
     IN calculateTimeRemaining(c.allTimers[c.allTimers.activeType], now) <= 0

Tick ==
  /\ mounted
  /\ Len(timerIntervalRef) > 0
  /\ LET c == timerIntervalRef[1]
         current == c.allTimers[c.allTimers.activeType]
         remaining == calculateTimeRemaining(current, now)
     IN IF remaining <= 0
        THEN LET done == completeTimer(c.allTimers, c.settings, allTimers)
             IN /\ allTimers' = done.allTimers
                /\ storage' = saveTimerStates(done.allTimers)
                /\ timeRemaining' = done.timeRemaining
                /\ onCompleteCalls' = onCompleteCalls + done.notified
                /\ completedBy' = "Tick"
                /\ timerIntervalRef' =
                     intervalEffect(clearTimerInterval(timerIntervalRef),
                                    allTimers, done.allTimers, settings)
        ELSE /\ timeRemaining' = remaining
             /\ UNCHANGED <<allTimers, storage, onCompleteCalls, completedBy,
                            timerIntervalRef>>
  /\ UNCHANGED <<now, mounted, settings>>

----------------------------------------------------------------------------
(* Page load and page close *)

\* A reload that leaves completion to the first tick
LoadedFinishedNever(rec, s, t) == FALSE

\* The reload effect finds the loaded active timer running and finished
LoadedFinished(rec, s, t) ==
  LET all0 == InitialTimerStates(rec, s)
      active0 == all0[all0.activeType]
  IN /\ active0.isRunning
     /\ Truthy(active0.startTime)
     /\ calculateTimeRemaining(active0, t) <= 0

\* The first render and its effects, in the order the hook declares them:
\* the interval effect, the settings effect, the reload effect; then the
\* re-render they cause and its interval effect.
Mount ==
  /\ ~mounted
  /\ LET all0 == InitialTimerStates(storage, settings)
         active0 == all0[all0.activeType]
         ref1 == IF active0.isRunning
                 THEN startTimerInterval(NoInterval, all0, settings)
                 ELSE clearTimerInterval(NoInterval)
         reconcile == settings.lastUpdated /\ NeedsUpdate(all0, settings)
         queued == IF reconcile THEN UpdatedTimers(all0, settings, now) ELSE all0
         wasRunning == active0.isRunning /\ Truthy(active0.startTime)
         remaining == calculateTimeRemaining(active0, now)
         done == completeTimer(all0, settings, queued)
     IN IF LoadedFinished(storage, settings, now)
        THEN /\ allTimers' = done.allTimers
             /\ storage' = saveTimerStates(done.allTimers)
             /\ timeRemaining' = done.timeRemaining
             /\ onCompleteCalls' = onCompleteCalls + done.notified
             /\ completedBy' = "Mount"
             /\ timerIntervalRef' =
                  intervalEffect(clearTimerInterval(ref1), all0, done.allTimers, settings)
        ELSE /\ allTimers' = queued
             /\ storage' = IF reconcile THEN saveTimerStates(queued) ELSE storage
             /\ timeRemaining' =
                  IF wasRunning THEN remaining
                  ELSE Max(0, active0.duration - active0.elapsed)
             /\ UNCHANGED <<onCompleteCalls, completedBy>>
             /\ timerIntervalRef' = intervalEffect(ref1, all0, queued, settings)
  /\ mounted' = TRUE
  /\ UNCHANGED <<now, settings>>

\* Closing or reloading the page: the interval effect's cleanup runs and
\* the React state is gone; localStorage stays.
Unmount ==
  /\ mounted
  /\ mounted' = FALSE
  /\ timerIntervalRef' = clearTimerInterval(timerIntervalRef)
  /\ allTimers' = NoValue
  /\ timeRemaining' = 0
  /\ UNCHANGED <<now, settings, storage, onCompleteCalls, completedBy>>

\* Wall-clock time passes
Advance(d) ==
  /\ now' = now + d
  /\ UNCHANGED <<mounted, allTimers, timeRemaining, timerIntervalRef, settings,
                 storage, onCompleteCalls, completedBy>>

----------------------------------------------------------------------------
(* Initial states: the page is not loaded yet; localStorage holds the      *)
(* settings and either no timer record or a damaged one.  Valid records    *)
(* are those the hook saves itself.                                        *)

DefaultSettings ==
  [timerDurations |-> [pomodoro |-> 25, shortBreak |-> 5, longBreak |-> 15],
   longBreakInterval |-> 4,
   lastUpdated |-> FALSE]

DamagedRecords ==
  LET base == createDefaultTimerStates(DefaultSettings) IN
  { NotJSON,
    [kind |-> "json", missing |-> {"activeType"}, value |-> base],
    [kind |-> "json", missing |-> {"shortBreak"}, value |-> base],
    [kind |-> "json", missing |-> {},
     value |-> [base EXCEPT !.pomodoro.elapsed = -5]] }

InitialRecords == {NoRecord} \cup DamagedRecords

\* Nothing of the second implementation is on the page
NoLegacy ==
  /\ timerStates = NoValue
  /\ isActive = FALSE
  /\ savedSettings = NoValue
  /\ isLoading = FALSE
  /\ reloadPending = FALSE
  /\ valid = FALSE

InitWith(s, rec) ==
  /\ now = Epoch
  /\ mounted = FALSE
  /\ allTimers = NoValue
  /\ timeRemaining = 0
  /\ timerIntervalRef = NoInterval
  /\ settings = s
  /\ storage = rec
  /\ onCompleteCalls = 0
  /\ completedBy = "none"
  /\ timerMode = "pomodoro"
  /\ NoLegacy
  /\ advances = 0
  /\ edits = 0
  /\ events = 0

Init == \E rec \in InitialRecords : InitWith(DefaultSettings, rec)

\* A handler call or page load, a settings edit, a clock advance: each
\* counts against its budget.
Counted == events < MaxEvents /\ events' = events + 1 /\ UNCHANGED <<advances, edits>>
Edited ==
  /\ events < MaxEvents /\ edits < MaxEdits
  /\ events' = events + 1 /\ edits' = edits + 1 /\ UNCHANGED advances
Advanced == advances < MaxAdvances /\ advances' = advances + 1 /\ UNCHANGED <<edits, events>>

Next ==
  \/ Mount /\ Counted /\ UNCHANGED appVars
  \/ Unmount /\ Counted /\ UNCHANGED appVars
  \/ startTimer /\ Counted /\ UNCHANGED appVars
  \/ pauseTimer /\ Counted /\ UNCHANGED appVars
  \/ resetTimer /\ Counted /\ UNCHANGED appVars
  \/ \E newType \in TimerTypes : changeTimerType(newType) /\ Counted /\ UNCHANGED appVars
  \/ Tick /\ UNCHANGED budgetVars /\ UNCHANGED appVars
  \/ \E type \in TimerTypes, v \in DurationInputs : updateTimerDuration(type, v) /\ Edited /\ UNCHANGED appVars
  \/ \E v \in IntervalInputs : changeLongBreakInterval(v) /\ Edited /\ UNCHANGED appVars
  \/ toggleSetting /\ UNCHANGED budgetVars /\ UNCHANGED appVars
  \/ \E d \in AdvanceSteps : Advance(d) /\ Advanced /\ UNCHANGED appVars

Spec == Init /\ [][Next]_vars

----------------------------------------------------------------------------
(* Vocabulary of the claims *)

\* Whole seconds a slot has been running or, when paused, its stored elapsed
ElapsedOf(timer, t) ==
  IF timer.isRunning /\ Truthy(timer.startTime)
  THEN FloorSeconds(t - timer.startTime)
  ELSE timer.elapsed

\* A step of one of the settings modal's handlers
SettingsStep ==
  \/ \E type \in TimerTypes, v \in DurationInputs : updateTimerDuration(type, v)
  \/ \E v \in IntervalInputs : changeLongBreakInterval(v)
  \/ toggleSetting

\* A step in which completeTimer runs: from the tick callback, or on load
TickCompletes == Tick /\ CompletionDue
MountCompletes == Mount /\ LoadedFinished(storage, settings, now)

----------------------------------------------------------------------------
(* C1: in every reachable state at most one of the three slots has         *)
(* isRunning = true, and a running slot is the active one.                 *)
C1_OnlyActiveSlotRuns ==
  mounted =>
    \A type \in TimerTypes :
      allTimers[type].isRunning => type = allTimers.activeType

(* C2: changeTimerType(otherKind) called while the active slot is running  *)
(* pauses that slot as part of the switch: it is left not running, with    *)
(* its elapsed frozen at the whole seconds it had run, so that its         *)
(* remaining time no longer depends on the clock.                          *)
C2_SwitchPausesRunningSlot ==
  [][\A newType \in TimerTypes :
       ( /\ mounted
         /\ newType # allTimers.activeType
         /\ allTimers[allTimers.activeType].isRunning
         /\ changeTimerType(newType) )
       => LET old == allTimers.activeType IN
          /\ ~allTimers'[old].isRunning
          /\ allTimers'[old].elapsed = ElapsedOf(allTimers[old], now)
          /\ calculateTimeRemaining(allTimers'[old], now + MsPerSecond)
               = allTimers[old].duration - ElapsedOf(allTimers[old], now)]_vars

(* C3: for every slot in every reachable state, isRunning is true exactly  *)
(* when startTime is non-null.                                             *)
C3_RunningIffStartTime ==
  mounted =>
    \A type \in TimerTypes :
      allTimers[type].isRunning <=> allTimers[type].startTime # Null

----------------------------------------------------------------------------
(* Start/pause cycles on the focus slot of a fresh page: the clock moves   *)
(* only while the slot is running, so the total running time is            *)
(* now - Epoch.                                                            *)

MaxRunSteps == 6
RunSteps == {500, 1000}

RunFor(d) ==
  /\ mounted
  /\ allTimers[allTimers.activeType].isRunning
  /\ advances < MaxRunSteps
  /\ Advance(d)
  /\ advances' = advances + 1
  /\ UNCHANGED <<edits, events>>

InitCycles == InitWith(DefaultSettings, NoRecord)

NextCycles ==
  \/ Mount /\ UNCHANGED budgetVars /\ UNCHANGED appVars
  \/ startTimer /\ UNCHANGED budgetVars /\ UNCHANGED appVars
  \/ pauseTimer /\ UNCHANGED budgetVars /\ UNCHANGED appVars
  \/ Tick /\ UNCHANGED budgetVars /\ UNCHANGED appVars
  \/ \E d \in RunSteps : RunFor(d) /\ UNCHANGED appVars

SpecCycles == InitCycles /\ [][NextCycles]_vars

(* C4: after any number of startTimer/pauseTimer cycles whose running      *)
(* intervals add up to a whole number of seconds below the duration, the   *)
(* paused slot's remaining time is its duration minus that total, however  *)
(* the total was split into cycles.                                        *)
C4_CyclesSumRunningTime ==
  ( /\ mounted
    /\ ~allTimers.pomodoro.isRunning
    /\ (now - Epoch) % MsPerSecond = 0 )
  => calculateTimeRemaining(allTimers.pomodoro, now)
       = allTimers.pomodoro.duration - FloorSeconds(now - Epoch)

(* C5: when a step of the settings modal alters a kind's duration setting  *)
(* to D' while that kind's slot has elapsed e whole seconds (running or    *)
(* paused) with e < D', the slot afterwards has duration D', still has     *)
(* elapsed e, has remaining time D' - e (also on the display when it is    *)
(* the active slot whose duration changed), and its running/paused status  *)
(* is unchanged.                                                           *)
C5_DurationEditKeepsElapsed ==
  [][SettingsStep =>
       \A type \in TimerTypes :
         LET D2 == getDurationFromSettings(type, settings')
             e == ElapsedOf(allTimers[type], now)
         IN ( /\ settings'.timerDurations[type] # settings.timerDurations[type]
              /\ e < D2 )
            => /\ allTimers'[type].duration = D2
               /\ ElapsedOf(allTimers'[type], now') = e
               /\ calculateTimeRemaining(allTimers'[type], now') = D2 - e
               /\ allTimers'[type].isRunning = allTimers[type].isRunning
               /\ ( /\ type = allTimers.activeType
                    /\ allTimers[type].duration # D2 )
                  => timeRemaining' = D2 - e]_vars

\* The focus slot, started at Epoch, has run 1500.5 s when its duration is
\* edited from 25 to 27 minutes: it is re-anchored and still running.
C5_Witness ==
  /\ mounted
  /\ settings.timerDurations.pomodoro = 27
  /\ allTimers.activeType = "pomodoro"
  /\ allTimers.pomodoro.isRunning
  /\ allTimers.pomodoro.duration = 1620
  /\ allTimers.pomodoro.startTime = Epoch + 500
  /\ timeRemaining = 120

(* C6: a step of the settings modal that does not alter kind K's duration  *)
(* setting leaves slot K's duration, elapsed, startTime and isRunning, and *)
(* so its remaining time, exactly unchanged, for every kind K and whether  *)
(* K is active, running or paused.                                         *)
C6_OtherKindsUntouched ==
  [][SettingsStep =>
       \A type \in TimerTypes :
         settings'.timerDurations[type] = settings.timerDurations[type]
         => /\ allTimers'[type] = allTimers[type]
            /\ calculateTimeRemaining(allTimers'[type], now')
                 = calculateTimeRemaining(allTimers[type], now)]_vars

----------------------------------------------------------------------------
(* Sessions run to their end under a fixed longBreakInterval: the page is  *)
(* fresh, the interval is one of CadenceIntervals and is never edited, and *)
(* the clock moves by whole sessions.  Everything else the user can do     *)
(* (switching, pausing, resetting, reloading, editing durations) stays.    *)

MaxSessions == 4
MaxDetours == 1
SessionMs == DefaultSettings.timerDurations.pomodoro * SecondsPerMinute * MsPerSecond
CadenceIntervals == {1, 2}

SessionPasses ==
  /\ advances < MaxSessions
  /\ Advance(SessionMs)
  /\ advances' = advances + 1
  /\ UNCHANGED <<edits, events>>

\* Anything the user does besides starting sessions and letting them run
Detour == events < MaxDetours /\ events' = events + 1 /\ UNCHANGED <<advances, edits>>

InitCadence ==
  \E n \in CadenceIntervals :
    InitWith([DefaultSettings EXCEPT !.longBreakInterval = n], NoRecord)

NextCadence ==
  \/ Mount /\ UNCHANGED budgetVars /\ UNCHANGED appVars
  \/ Unmount /\ Detour /\ UNCHANGED appVars
  \/ startTimer /\ UNCHANGED budgetVars /\ UNCHANGED appVars
  \/ pauseTimer /\ Detour /\ UNCHANGED appVars
  \/ resetTimer /\ Detour /\ UNCHANGED appVars
  \/ \E newType \in TimerTypes : changeTimerType(newType) /\ Detour /\ UNCHANGED appVars
  \/ Tick /\ UNCHANGED budgetVars /\ UNCHANGED appVars
  \/ \E type \in TimerTypes, v \in DurationInputs : updateTimerDuration(type, v) /\ Detour /\ UNCHANGED appVars
  \/ toggleSetting /\ UNCHANGED budgetVars /\ UNCHANGED appVars
  \/ SessionPasses /\ UNCHANGED appVars

SpecCadence == InitCadence /\ [][NextCadence]_vars

\* The engine state a completion starts from: the hook's state, or on page
\* load the state read from the persisted record
CompletingFrom ==
  IF mounted THEN allTimers ELSE InitialTimerStates(storage, settings)

(* C7: with longBreakInterval = N never edited and completedPomodoros      *)
(* starting at 0, every Focus completion adds one to completedPomodoros    *)
(* and makes longBreak active when the new count k is a multiple of N and  *)
(* shortBreak otherwise; every break completion keeps the count and makes  *)
(* pomodoro active; and the count changes in no other step, so k numbers   *)
(* the Focus completions.                                                  *)
C7_CadenceFollowsCount ==
  [][ /\ (TickCompletes \/ MountCompletes) =>
           LET before == CompletingFrom
               k == allTimers'.completedPomodoros
           IN IF before.activeType = "pomodoro"
              THEN /\ k = before.completedPomodoros + 1
                   /\ allTimers'.activeType =
                        IF k % settings.longBreakInterval = 0
                        THEN "longBreak" ELSE "shortBreak"
              ELSE /\ k = before.completedPomodoros
                   /\ allTimers'.activeType = "pomodoro"
      /\ ( /\ mounted'
           /\ allTimers'.completedPomodoros # CompletingFrom.completedPomodoros )
         => (TickCompletes \/ MountCompletes) ]_vars

\* The second Focus completion under N = 2 has made longBreak active.
C7_Witness ==
  /\ mounted
  /\ settings.longBreakInterval = 2
  /\ completedBy = "Tick"
  /\ allTimers.completedPomodoros = 2
  /\ allTimers.activeType = "longBreak"
  /\ onCompleteCalls = 2

----------------------------------------------------------------------------
\* A step in which the Complete transition happens
CompleteStep == TickCompletes \/ MountCompletes

(* C8 as stated: a run whose remaining time has reached 0 ends with        *)
(* exactly one Complete, also when pauseTimer or resetTimer is called      *)
(* around that moment: once the running active slot is at 0, the step in   *)
(* which it stops running is the Complete transition.                      *)
C8_CompleteExactlyOnce ==
  [][( /\ mounted /\ mounted'
       /\ allTimers[allTimers.activeType].isRunning
       /\ calculateTimeRemaining(allTimers[allTimers.activeType], now) = 0
       /\ ~allTimers'[allTimers.activeType].isRunning )
     => CompleteStep]_vars

(* C8 amended: Complete happens at most once per run of a slot.  Each      *)
(* Complete starts from a running active slot and leaves that slot not     *)
(* running, with no start timestamp and no interval of the finished run    *)
(* still scheduled; onComplete is invoked exactly once in a Complete of a  *)
(* Focus slot and in no other step; and a slot that is not running starts  *)
(* running only by startTimer.                                             *)
C8_CompleteAtMostOncePerRun ==
  [][ /\ CompleteStep =>
           LET before == CompletingFrom
               type == before.activeType
           IN /\ before[type].isRunning
              /\ ~allTimers'[type].isRunning
              /\ allTimers'[type].startTime = Null
              /\ Len(timerIntervalRef') > 0 => timerIntervalRef'[1].allTimers = allTimers'
              /\ onCompleteCalls' =
                   onCompleteCalls + (IF type = "pomodoro" THEN 1 ELSE 0)
      /\ onCompleteCalls' # onCompleteCalls => CompleteStep
      /\ ( /\ mounted /\ mounted'
           /\ \E type \in TimerTypes :
                ~allTimers[type].isRunning /\ allTimers'[type].isRunning )
         => startTimer ]_vars

\* The tick callback has completed the first Focus session: one
\* notification, the slot stopped, no interval left.
C8_Witness ==
  /\ mounted
  /\ completedBy = "Tick"
  /\ onCompleteCalls = 1
  /\ allTimers.completedPomodoros = 1
  /\ allTimers.activeType = "shortBreak"
  /\ ~allTimers.pomodoro.isRunning
  /\ timerIntervalRef = NoInterval

(* C9: when the page loads with a persisted record whose active slot is    *)
(* running and whose stored startTime lies at least its duration in the    *)
(* past, the load itself performs Complete: the slot is reset, a Focus     *)
(* session is counted and notified, the next kind given by the cadence     *)
(* rule is active, and no tick callback is involved.                       *)
C9_LoadCompletesOverrun ==
  [][( /\ Mount
       /\ storage.kind = "json"
       /\ storage.missing = {}
       /\ LET raw == storage.value
              slot == raw[raw.activeType]
          IN /\ slot.isRunning
             /\ slot.startTime # Null
             /\ slot.duration > 0
             /\ now - slot.startTime >= slot.duration * MsPerSecond )
     => LET raw == storage.value
            type == raw.activeType
            count == raw.completedPomodoros + (IF type = "pomodoro" THEN 1 ELSE 0)
        IN /\ allTimers'[type].isRunning = FALSE
           /\ allTimers'[type].startTime = Null
           /\ allTimers'[type].elapsed = 0
           /\ allTimers'.completedPomodoros = count
           /\ allTimers'.activeType = NextType(type, count, settings)
           /\ onCompleteCalls' =
                onCompleteCalls + (IF type = "pomodoro" THEN 1 ELSE 0)
           /\ storage' = saveTimerStates(allTimers')]_vars

\* A page reloaded after its running Focus session ran out while closed
C9_Witness ==
  /\ mounted
  /\ completedBy = "Mount"
  /\ onCompleteCalls = 1
  /\ allTimers.completedPomodoros = 1
  /\ allTimers.activeType = "shortBreak"
  /\ ~allTimers.pomodoro.isRunning
  /\ now >= Epoch + 1500000

\* A persisted record that is not JSON, lacks activeType or a slot, or
\* holds a slot with negative elapsed
Damaged(rec) ==
  \/ rec.kind = "invalid"
  \/ /\ rec.kind = "json"
     /\ \/ rec.missing \cap {"activeType", "pomodoro", "shortBreak", "longBreak"} # {}
        \/ \E type \in TimerTypes : rec.value[type].elapsed < 0

(* C10: a page load from a persisted record that is not valid JSON, lacks  *)
(* activeType or a slot, or contains a slot with negative elapsed yields   *)
(* exactly the default state: every slot at its full settings duration     *)
(* with elapsed 0 and not running, pomodoro active, completedPomodoros 0.  *)
C10_DamagedRecordGivesDefault ==
  [][(Mount /\ Damaged(storage))
     => /\ allTimers' = createDefaultTimerStates(settings)
        /\ timeRemaining' = getDurationFromSettings("pomodoro", settings)]_vars

----------------------------------------------------------------------------
\* The persisted record holds a complete object whose active slot is running
StoredRunning ==
  /\ storage.kind = "json"
  /\ storage.missing = {}
  /\ storage.value[storage.value.activeType].isRunning
  /\ storage.value[storage.value.activeType].startTime # Null
  /\ storage.value[storage.value.activeType].duration > 0

(* C11: when the page loads with a persisted record whose active slot is   *)
(* running and has remaining time > 0 at load time, the slot is running    *)
(* after the load with no startTimer call (same active kind, an interval   *)
(* scheduled, no Complete), the whole seconds elapsed since the stored     *)
(* startTime are kept, and its remaining time is its duration minus those  *)
(* seconds (also on the display when the load kept the stored duration).   *)
C11_LoadResumesRunning ==
  [][( /\ Mount
       /\ StoredRunning
       /\ LET slot == storage.value[storage.value.activeType]
          IN FloorSeconds(now - slot.startTime) < slot.duration )
     => LET type == storage.value.activeType
            stored == storage.value[type]
            e == FloorSeconds(now - stored.startTime)
            slot == allTimers'[type]
        IN /\ allTimers'.activeType = type
           /\ slot.isRunning
           /\ slot.startTime # Null
           /\ FloorSeconds(now - slot.startTime) = e
           /\ Len(timerIntervalRef') > 0
           /\ onCompleteCalls' = onCompleteCalls
           /\ allTimers'.completedPomodoros = storage.value.completedPomodoros
           /\ slot.duration > e =>
                calculateTimeRemaining(slot, now) = slot.duration - e
           /\ slot.duration = stored.duration =>
                timeRemaining' = stored.duration - e]_vars

\* The page was closed and reopened while the focus slot was running: it
\* runs on, one second into the session, with no tick needed.
C11_Witness ==
  /\ mounted
  /\ events = 4
  /\ edits = 0
  /\ completedBy = "none"
  /\ allTimers.activeType = "pomodoro"
  /\ allTimers.pomodoro.isRunning
  /\ allTimers.pomodoro.startTime = Epoch
  /\ now = Epoch + 1000
  /\ timeRemaining = 1499
  /\ Len(timerIntervalRef) > 0

(* C12: an operation whose guard is not met changes nothing in the engine  *)
(* state or the persisted record: startTimer when the active slot is       *)
(* already running or has remaining time 0, pauseTimer when the active     *)
(* slot is not running, changeTimerType with the kind already active.      *)
C12_UnmetGuardIsInert ==
  [][ LET active == allTimers[allTimers.activeType]
      IN /\ ( /\ mounted
              /\ startTimer
              /\ active.isRunning \/ calculateTimeRemaining(active, now) <= 0 )
            => UNCHANGED hookVars
         /\ (mounted /\ pauseTimer /\ ~active.isRunning) => UNCHANGED hookVars
         /\ (mounted /\ changeTimerType(allTimers.activeType)) => UNCHANGED hookVars
    ]_vars

(* C13: in every reachable state every slot satisfies                      *)
(* 0 <= elapsed <= duration, so a paused slot's remaining time is never    *)
(* negative, also after a pauseTimer later than the slot's end time and    *)
(* after a settings change that shortens a paused slot's duration.         *)
C13_ElapsedWithinDuration ==
  mounted =>
    \A type \in TimerTypes :
      /\ 0 <= allTimers[type].elapsed
      /\ allTimers[type].elapsed <= allTimers[type].duration
      /\ ~allTimers[type].isRunning =>
           calculateTimeRemaining(allTimers[type], now) >= 0

(* C14: a settings change never by itself brings a running slot's          *)
(* remaining time to 0: a running slot with time left still has time left  *)
(* after the change, and when the new duration is not greater than the     *)
(* time already elapsed the slot is left running with 1 second remaining.  *)
C14_EditNeverFinishesRunningSlot ==
  [][SettingsStep =>
       \A type \in TimerTypes :
         LET slot == allTimers[type]
             D2 == getDurationFromSettings(type, settings')
             e == ElapsedOf(slot, now)
         IN (slot.isRunning /\ slot.startTime # Null)
            => /\ calculateTimeRemaining(slot, now) > 0
                  => calculateTimeRemaining(allTimers'[type], now') > 0
               /\ ( /\ settings'.timerDurations[type] # settings.timerDurations[type]
                    /\ D2 <= e )
                  => /\ allTimers'[type].isRunning
                     /\ calculateTimeRemaining(allTimers'[type], now') = 1]_vars

(* C15: immediately after every Complete transition the newly active slot  *)
(* is not running and no tick callback counts it down, whatever the        *)
(* earlier history of starts, switches and pauses; and while the active    *)
(* kind stays the same its slot starts running only by startTimer.         *)
C15_NextSlotWaitsForStart ==
  [][ /\ CompleteStep =>
           /\ ~allTimers'[allTimers'.activeType].isRunning
           /\ timerIntervalRef' = NoInterval
      /\ ( /\ mounted /\ mounted'
           /\ allTimers'.activeType = allTimers.activeType
           /\ ~allTimers[allTimers.activeType].isRunning
           /\ allTimers'[allTimers.activeType].isRunning )
         => startTimer ]_vars

----------------------------------------------------------------------------
(* An onComplete that throws.  completeTimer has cancelled the interval    *)
(* and calls onComplete before it queues any state update, so the          *)
(* exception leaves the callback with only the interval gone.              *)

\* The interval callback when the notification of a Focus completion throws
TickThrowing ==
  IF CompletionDue /\ timerIntervalRef[1].allTimers.activeType = "pomodoro"
  THEN /\ mounted
       /\ timerIntervalRef' = clearTimerInterval(timerIntervalRef)
       /\ onCompleteCalls' = onCompleteCalls + 1
       /\ UNCHANGED <<now, mounted, allTimers, timeRemaining, settings, storage,
                      completedBy>>
  ELSE Tick

\* The page load when the reload effect's completeTimer throws: React
\* unmounts the tree; the settings effect has already saved what it changed.
MountThrowing ==
  IF /\ ~mounted
     /\ LoadedFinished(storage, settings, now)
     /\ InitialTimerStates(storage, settings).activeType = "pomodoro"
  THEN LET all0 == InitialTimerStates(storage, settings)
       IN /\ onCompleteCalls' = onCompleteCalls + 1
          /\ storage' =
               IF settings.lastUpdated /\ NeedsUpdate(all0, settings)
               THEN saveTimerStates(UpdatedTimers(all0, settings, now))
               ELSE storage
          /\ UNCHANGED <<now, mounted, allTimers, timeRemaining, timerIntervalRef,
                         settings, completedBy>>
  ELSE Mount

NextThrowing ==
  \/ MountThrowing /\ Counted /\ UNCHANGED appVars
  \/ Unmount /\ Counted /\ UNCHANGED appVars
  \/ startTimer /\ Counted /\ UNCHANGED appVars
  \/ pauseTimer /\ Counted /\ UNCHANGED appVars
  \/ resetTimer /\ Counted /\ UNCHANGED appVars
  \/ \E newType \in TimerTypes : changeTimerType(newType) /\ Counted /\ UNCHANGED appVars
  \/ TickThrowing /\ UNCHANGED budgetVars /\ UNCHANGED appVars
  \/ \E d \in AdvanceSteps : Advance(d) /\ Advanced /\ UNCHANGED appVars

SpecThrowing == InitWith(DefaultSettings, NoRecord) /\ [][NextThrowing]_vars

(* C16: if the onComplete notification throws, the Complete transition     *)
(* still takes effect (the completed Focus slot ends not running with      *)
(* elapsed 0, completedPomodoros is incremented, the next kind is active), *)
(* and the engine is never left with a running slot at 0 remaining and no  *)
(* tick scheduled.                                                         *)
C16_ThrowingNotificationStillCompletes ==
  [][ /\ onCompleteCalls' # onCompleteCalls =>
           LET before == CompletingFrom
           IN /\ mounted'
              /\ ~allTimers'.pomodoro.isRunning
              /\ allTimers'.pomodoro.elapsed = 0
              /\ allTimers'.completedPomodoros = before.completedPomodoros + 1
              /\ allTimers'.activeType =
                   NextType("pomodoro", before.completedPomodoros + 1, settings)
      /\ ( /\ mounted'
           /\ allTimers'[allTimers'.activeType].isRunning
           /\ calculateTimeRemaining(allTimers'[allTimers'.activeType], now') <= 0 )
         => Len(timerIntervalRef') > 0 ]_vars

(* C17: resetTimer sets the active slot to elapsed 0, isRunning false,     *)
(* startTime null and duration equal to the current settings duration of   *)
(* that kind, shows the full duration as remaining time, cancels the       *)
(* interval of the slot, saves the state, and leaves the other two slots,  *)
(* the active kind and completedPomodoros unchanged.                       *)
C17_ResetOnlyActiveSlot ==
  [][(mounted /\ resetTimer) =>
       LET type == allTimers.activeType
           full == getDurationFromSettings(type, settings)
       IN /\ allTimers'[type] = createDefaultTimerState(full)
          /\ timeRemaining' = full
          /\ timerIntervalRef' = NoInterval
          /\ \A other \in TimerTypes \ {type} : allTimers'[other] = allTimers[other]
          /\ allTimers'.activeType = type
          /\ allTimers'.completedPomodoros = allTimers.completedPomodoros
          /\ storage' = saveTimerStates(allTimers')
          /\ UNCHANGED <<settings, onCompleteCalls>>]_vars

\* The short break was reset while the focus slot, left running by an
\* earlier switch, keeps running untouched.
C17_Witness ==
  /\ mounted
  /\ allTimers.activeType = "shortBreak"
  /\ allTimers.shortBreak = createDefaultTimerState(300)
  /\ allTimers.pomodoro.isRunning
  /\ allTimers.pomodoro.startTime = Epoch
  /\ timeRemaining = 300
  /\ timerIntervalRef = NoInterval
  /\ now = Epoch + 1000
  /\ events = 4

(* C18: a settings update whose three durations equal the slots' current   *)
(* durations (a toggle of dark mode, sound or auto-start, or the same      *)
(* durations delivered again) leaves all three slots, the active kind,     *)
(* completedPomodoros and the persisted record unchanged, and with them    *)
(* the displayed time and the interval.                                    *)
C18_SameDurationsChangeNothing ==
  [][( /\ SettingsStep
       /\ \A type \in TimerTypes :
            getDurationFromSettings(type, settings') = allTimers[type].duration )
     => UNCHANGED <<allTimers, storage, timeRemaining, timerIntervalRef>>]_vars

\* A duration was typed in again with its current value: the settings
\* carry a lastUpdated stamp and no timer record has been written.
C18_Witness ==
  /\ mounted
  /\ settings.lastUpdated
  /\ settings.timerDurations = DefaultSettings.timerDurations
  /\ edits >= 1
  /\ storage = NoRecord
  /\ allTimers = createDefaultTimerStates(settings)

(* C19: after a settings change has altered the duration of the running    *)
(* active slot, the tick callback evaluates the remaining time against     *)
(* the new duration: it completes the slot when, and only when, the        *)
(* elapsed time has reached the slot's current duration, and otherwise     *)
(* displays the remaining time of the slot as it is now.                   *)
C19_TickUsesCurrentDuration ==
  [][Tick =>
       LET active == allTimers[allTimers.activeType]
           remaining == calculateTimeRemaining(active, now)
       IN (settings.lastUpdated /\ active.isRunning)
          => /\ CompletionDue <=> remaining <= 0
             /\ remaining > 0 => timeRemaining' = remaining]_vars

----------------------------------------------------------------------------
(* The hook inside the PomodoroTimer component, rendered by App: App owns  *)
(* timerMode, the component compares it with the hook's timerType.         *)

\* App's useState initialiser: parsed.timerMode || 'pomodoro'.  It reads
\* the record under TIMER_STORAGE_KEY, which saveTimerStates writes as
\* activeType, completedPomodoros and the three slots: parsed.timerMode is
\* undefined for every such record, and text that is not JSON throws into
\* the catch.
InitialTimerMode(rec) == "pomodoro"

\* The component's effect on [timerMode, timerType, ...] has work to do:
\* newType !== timerType
SyncPending == mounted /\ timerMode # allTimers.activeType

\* The effect's body, in the render that follows a change of timerType
SyncEffect ==
  /\ SyncPending
  /\ changeTimerType(timerMode)
  /\ UNCHANGED appVars

\* A mode button: setTimerMode(mode, true) in App, then the effect of the
\* re-render calls changeTimerType(mode)
setTimerMode(mode) ==
  /\ mounted
  /\ timerMode' = mode
  /\ UNCHANGED legacyVars
  /\ changeTimerType(mode)

\* The page load with the component: App's initialiser, the hook's three
\* effects, then the component's effect in the same commit.  That effect
\* sees the timerType of the first render; when it differs from timerMode
\* it calls changeTimerType in the first render's closure, after whatever
\* the reload effect queued.
MountComponent ==
  LET mode == InitialTimerMode(storage)
      all0 == InitialTimerStates(storage, settings)
      reconcile == settings.lastUpdated /\ NeedsUpdate(all0, settings)
      queued == IF reconcile THEN UpdatedTimers(all0, settings, now) ELSE all0
      done == completeTimer(all0, settings, queued)
      finished == LoadedFinished(storage, settings, now)
      base == IF finished THEN done.allTimers ELSE queued
      updated == [base EXCEPT !.activeType = mode]
      newTimer == all0[mode]
  IN /\ timerMode' = mode
     /\ UNCHANGED legacyVars
     /\ IF mode = all0.activeType
        THEN Mount
        ELSE /\ ~mounted
             /\ mounted' = TRUE
             /\ allTimers' = updated
             /\ storage' = saveTimerStates(updated)
             /\ timeRemaining' = calculateTimeRemaining(newTimer, now)
             /\ onCompleteCalls' = onCompleteCalls + (IF finished THEN done.notified ELSE 0)
             /\ completedBy' = IF finished THEN "Mount" ELSE completedBy
             /\ timerIntervalRef' =
                  intervalEffect(
                    IF newTimer.isRunning
                    THEN startTimerInterval(NoInterval, all0, settings)
                    ELSE NoInterval,
                    all0, updated, settings)
             /\ UNCHANGED <<now, settings>>

\* Nothing else runs between a render and its effects
Settled == ~SyncPending

NextComponent ==
  \/ MountComponent /\ Counted
  \/ Settled /\ Unmount /\ Counted /\ UNCHANGED appVars
  \/ Settled /\ startTimer /\ Counted /\ UNCHANGED appVars
  \/ Settled /\ pauseTimer /\ Counted /\ UNCHANGED appVars
  \/ Settled /\ resetTimer /\ Counted /\ UNCHANGED appVars
  \/ \E mode \in TimerTypes : Settled /\ setTimerMode(mode) /\ Counted
  \/ Settled /\ Tick /\ UNCHANGED budgetVars /\ UNCHANGED appVars
  \/ SyncEffect /\ UNCHANGED budgetVars
  \/ \E d \in AdvanceSteps : Settled /\ Advance(d) /\ Advanced /\ UNCHANGED appVars

SpecComponent == InitWith(DefaultSettings, NoRecord) /\ [][NextComponent]_vars

(* C20: with the hook inside the PomodoroTimer component, the active kind  *)
(* changes only in a Complete step or when the user selects a kind (the    *)
(* timerMode synchronisation never moves the engine off the kind Complete  *)
(* chose), and a page load leaves the persisted kind active (the kind      *)
(* after it, when the load itself completes the slot).                     *)
C20_KindChangesByCompleteOrUser ==
  [][ /\ ( /\ mounted /\ mounted'
           /\ allTimers'.activeType # allTimers.activeType )
         => (TickCompletes \/ timerMode' # timerMode)
      /\ (~mounted /\ mounted')
         => LET all0 == InitialTimerStates(storage, settings)
            IN allTimers'.activeType =
                 IF LoadedFinished(storage, settings, now)
                 THEN NextType(all0.activeType,
                               completeTimer(all0, settings, all0).allTimers.completedPomodoros,
                               settings)
                 ELSE all0.activeType ]_vars

----------------------------------------------------------------------------
(* Resuming a kind that was paused part-way: a run in which the interval   *)
(* callback always fires before the user's next action, so the display is  *)
(* never behind the clock when a handler runs.                             *)

MaxResumeEvents == 6
ResumeSteps == {MsPerSecond, SessionMs}

\* The scheduled callback would change what is displayed, or complete
TickDue ==
  /\ mounted
  /\ Len(timerIntervalRef) > 0
  /\ LET c == timerIntervalRef[1]
     IN \/ CompletionDue
        \/ calculateTimeRemaining(c.allTimers[c.allTimers.activeType], now)
             # timeRemaining

Resumed ==
  /\ ~TickDue
  /\ events < MaxResumeEvents
  /\ events' = events + 1
  /\ UNCHANGED <<advances, edits>>

NextResume ==
  \/ Mount /\ Resumed /\ UNCHANGED appVars
  \/ startTimer /\ Resumed /\ UNCHANGED appVars
  \/ pauseTimer /\ Resumed /\ UNCHANGED appVars
  \/ \E newType \in TimerTypes : changeTimerType(newType) /\ Resumed /\ UNCHANGED appVars
  \/ Tick /\ TickDue /\ UNCHANGED budgetVars /\ UNCHANGED appVars
  \/ \E d \in ResumeSteps : ~TickDue /\ Advance(d) /\ Advanced /\ UNCHANGED appVars

SpecResume == InitWith(DefaultSettings, NoRecord) /\ [][NextResume]_vars

(* C21: whenever the hook is mounted and the active slot is not running,   *)
(* the displayed timeRemaining equals duration - elapsed of the active     *)
(* slot; in particular right after a Complete it is the remaining time of  *)
(* the newly active slot, also when that slot was paused part-way before.  *)
C21_PausedDisplayIsDurationMinusElapsed ==
  LET active == allTimers[allTimers.activeType]
  IN (mounted /\ ~active.isRunning)
       => timeRemaining = active.duration - active.elapsed

----------------------------------------------------------------------------
(* The completion of a Focus session in the order completeTimer runs it:   *)
(* first the onComplete call, then setAllTimers with its save and          *)
(* setTimeRemaining.  Nothing else runs in between; completedBy names the  *)
(* callback's position.  The closure of the running callback is read from  *)
(* timerIntervalRef, so the ref's reset is recorded when the callback      *)
(* ends.                                                                   *)

InOnComplete == completedBy = "onComplete"

\* The callback is due and its closure's active kind is Focus
FocusCompletionDue ==
  CompletionDue /\ timerIntervalRef[1].allTimers.activeType = "pomodoro"

\* The callback up to and including the onComplete() call
TickNotify ==
  /\ mounted
  /\ ~InOnComplete
  /\ FocusCompletionDue
  /\ onCompleteCalls' = onCompleteCalls + 1
  /\ completedBy' = "onComplete"
  /\ UNCHANGED <<now, mounted, allTimers, timeRemaining, timerIntervalRef,
                 settings, storage>>

\* onComplete has returned: the rest of completeTimer
TickFinish ==
  /\ InOnComplete
  /\ LET c == timerIntervalRef[1]
         done == completeTimer(c.allTimers, c.settings, allTimers)
     IN /\ allTimers' = done.allTimers
        /\ storage' = saveTimerStates(done.allTimers)
        /\ timeRemaining' = done.timeRemaining
        /\ completedBy' = "Tick"
        /\ timerIntervalRef' =
             intervalEffect(clearTimerInterval(timerIntervalRef),
                            allTimers, done.allTimers, settings)
  /\ UNCHANGED <<now, mounted, settings, onCompleteCalls>>

\* A handler call between callbacks
Called == ~InOnComplete /\ Counted

NextNotify ==
  \/ Mount /\ Called /\ UNCHANGED appVars
  \/ startTimer /\ Called /\ UNCHANGED appVars
  \/ pauseTimer /\ Called /\ UNCHANGED appVars
  \/ resetTimer /\ Called /\ UNCHANGED appVars
  \/ \E newType \in TimerTypes : changeTimerType(newType) /\ Called /\ UNCHANGED appVars
  \/ TickNotify /\ UNCHANGED budgetVars /\ UNCHANGED appVars
  \/ TickFinish /\ UNCHANGED budgetVars /\ UNCHANGED appVars
  \/ ~InOnComplete /\ ~FocusCompletionDue /\ Tick /\ UNCHANGED budgetVars /\ UNCHANGED appVars
  \/ \E d \in AdvanceSteps : ~InOnComplete /\ Advance(d) /\ Advanced /\ UNCHANGED appVars

SpecNotify == InitWith(DefaultSettings, NoRecord) /\ [][NextNotify]_vars

(* C22: while onComplete runs for a Focus completion, the engine state and *)
(* the persisted record already show the completed Focus slot as not       *)
(* running.                                                                *)
C22_StateChangePrecedesNotification ==
  InOnComplete =>
    /\ ~allTimers.pomodoro.isRunning
    /\ storage.kind = "json" /\ ~storage.value.pomodoro.isRunning

----------------------------------------------------------------------------
\* Once effects have settled: an interval is scheduled exactly when the
\* hook is mounted and the active slot is running, and never two
IntervalSettled ==
  /\ Len(timerIntervalRef) <= 1
  /\ Len(timerIntervalRef) > 0
       <=> (mounted /\ allTimers[allTimers.activeType].isRunning)

\* A step of a handler or callback that has to cancel the interval
CancellingStep ==
  \/ pauseTimer
  \/ resetTimer
  \/ \E newType \in TimerTypes : changeTimerType(newType)
  \/ CompleteStep
  \/ Unmount

(* C23: at most one tick interval is scheduled at any time; once effects   *)
(* have settled one is scheduled exactly when the hook is mounted and the  *)
(* active slot is running; pauseTimer, resetTimer, changeTimerType,        *)
(* completion and unmount cancel the interval that existed: afterwards     *)
(* there is none, or one created by the new render.                        *)
C23_OneIntervalWhileRunning ==
  [][ /\ IntervalSettled
      /\ IntervalSettled'
      /\ CancellingStep =>
           \/ timerIntervalRef' = NoInterval
           \/ timerIntervalRef' = << Closure(allTimers', settings') >> ]_vars

\* A run was paused part-way: the slot keeps its startTime and elapsed,
\* and its interval is gone
C23_Witness ==
  /\ mounted
  /\ ~allTimers[allTimers.activeType].isRunning
  /\ Truthy(allTimers[allTimers.activeType].startTime)
  /\ allTimers[allTimers.activeType].elapsed > 0
  /\ timerIntervalRef = NoInterval

----------------------------------------------------------------------------
(* Progress: the clock keeps going while the active slot runs, and the     *)
(* scheduled callback keeps being called.                                  *)

\* More passes than the runs of one behaviour can use
MaxPasses == 8

\* Time passes until the scheduled callback would complete
TimePasses ==
  /\ mounted
  /\ allTimers[allTimers.activeType].isRunning
  /\ ~CompletionDue
  /\ advances < MaxPasses
  /\ Advance(SessionMs)
  /\ advances' = advances + 1
  /\ UNCHANGED <<edits, events, appVars>>

\* The browser calls the scheduled callback
TickFires == Tick /\ UNCHANGED budgetVars /\ UNCHANGED appVars

NextLive ==
  \/ Mount /\ Counted /\ UNCHANGED appVars
  \/ Unmount /\ Counted /\ UNCHANGED appVars
  \/ startTimer /\ Counted /\ UNCHANGED appVars
  \/ pauseTimer /\ Counted /\ UNCHANGED appVars
  \/ resetTimer /\ Counted /\ UNCHANGED appVars
  \/ \E newType \in TimerTypes : changeTimerType(newType) /\ Counted /\ UNCHANGED appVars
  \/ \E type \in TimerTypes, v \in DurationInputs : updateTimerDuration(type, v) /\ Edited /\ UNCHANGED appVars
  \/ TickFires
  \/ TimePasses

SpecLive ==
  /\ InitWith(DefaultSettings, NoRecord)
  /\ [][NextLive]_vars
  /\ WF_vars(TickFires)
  /\ WF_vars(TimePasses)

\* The user has made the last call of the run
UserDone == events = MaxEvents

(* C24: if the active slot is running and the user does nothing further,   *)
(* then, the tick callback being scheduled fairly and onComplete           *)
(* returning, Complete eventually fires and the active slot is not         *)
(* running.                                                                *)
C24_RunningSlotEventuallyCompletes ==
  (mounted /\ UserDone /\ allTimers[allTimers.activeType].isRunning)
    ~> (mounted /\ ~allTimers[allTimers.activeType].isRunning)

\* After the user's last call a Focus run came to its end and was
\* completed by the tick callback
C24_Witness ==
  /\ mounted
  /\ UserDone
  /\ completedBy = "Tick"
  /\ now > Epoch
  /\ allTimers.completedPomodoros > 0
  /\ ~allTimers[allTimers.activeType].isRunning

(* C25: for every reachable state of the mounted hook, saving it and       *)
(* initialising again at the same instant with the same settings gives     *)
(* the same active kind, completedPomodoros and, for each slot, the same   *)
(* duration, elapsed, isRunning and startTime.                             *)
C25_SaveLoadRoundTrip ==
  mounted =>
    InitialTimerStates(saveTimerStates(allTimers), settings) = allTimers

----------------------------------------------------------------------------
(* Sessions run to completion while the long-break interval is edited.     *)

NextInterval ==
  \/ Mount /\ UNCHANGED budgetVars /\ UNCHANGED appVars
  \/ startTimer /\ UNCHANGED budgetVars /\ UNCHANGED appVars
  \/ Tick /\ UNCHANGED budgetVars /\ UNCHANGED appVars
  \/ \E v \in IntervalInputs : changeLongBreakInterval(v) /\ Edited /\ UNCHANGED appVars
  \/ SessionPasses /\ UNCHANGED appVars

SpecInterval == InitCadence /\ [][NextInterval]_vars

(* C26: the kind that follows a Focus completion is computed with the      *)
(* longBreakInterval of the settings in force when the completion runs,    *)
(* also when it was edited while that Focus session was running.           *)
C26_CadenceUsesCurrentInterval ==
  [][ ( /\ TickCompletes \/ MountCompletes
        /\ CompletingFrom.activeType = "pomodoro" )
      => allTimers'.activeType =
           IF allTimers'.completedPomodoros % settings.longBreakInterval = 0
           THEN "longBreak" ELSE "shortBreak" ]_vars

----------------------------------------------------------------------------
(* The second, self-contained PomodoroTimer (PomodoroTimer.tsx, from line  *)
(* 185).  It keeps timeRemaining, isActive and timerStates in useState and  *)
(* writes one record to localStorage['pomoSpaceTimerState'].                *)

\* JavaScript numbers that are not integers of the model: the NaN that
\* arithmetic on a non-numeric operand gives, and a stored setting that is
\* a non-numeric string.  JSON's null is Null.
NaN == -1000000000
NotNumeric == -1000000001

\* ToNumber of a number or a non-numeric string
ToNumber(x) == IF x = NotNumeric THEN NaN ELSE x

\* a < b: false whenever an operand is NaN
LessThan(a, b) == ToNumber(a) # NaN /\ ToNumber(b) # NaN /\ a < b

\* a - b, Math.max(a, b)
Minus(a, b) == IF ToNumber(a) = NaN \/ ToNumber(b) = NaN THEN NaN ELSE a - b
MathMax(a, b) == IF ToNumber(a) = NaN \/ ToNumber(b) = NaN THEN NaN ELSE Max(a, b)

\* !x of a number, null or string
Falsy(x) == x = 0 \/ x = NaN \/ x = Null

\* a === b: NaN equals nothing
StrictEquals(a, b) == a # NaN /\ b # NaN /\ a = b

\* JSON.stringify of a number: NaN is written as null
JsonNumber(x) == IF x = NaN THEN Null ELSE x

\* getDuration(mode, settings): minutes * 60
getDuration(mode, s) ==
  LET minutes == s.timerDurations[mode]
  IN IF ToNumber(minutes) = NaN THEN NaN ELSE minutes * SecondsPerMinute

\* The record JSON.parse gives back for what updateTimerState wrote
TimerRecord(mode, tr, act, original, all) ==
  [timeRemaining |-> JsonNumber(tr),
   isActive |-> act,
   timerMode |-> mode,
   originalDuration |-> JsonNumber(original),
   hasTimerStates |-> TRUE,
   timerStates |-> [m \in TimerTypes |->
                      [timeRemaining |-> JsonNumber(all[m].timeRemaining),
                       isActive |-> all[m].isActive]]]

FullTimerStates(s) ==
  [m \in TimerTypes |-> [timeRemaining |-> getDuration(m, s), isActive |-> FALSE]]

\* getSavedTimerState, for a record that was not active when it was written
getSavedTimerState(stor, mode, s) ==
  IF stor.kind = "json"
  THEN LET parsedState == stor.value
       IN IF parsedState.hasTimerStates
          THEN parsedState
          ELSE [parsedState EXCEPT
                  !.hasTimerStates = TRUE,
                  !.timerStates =
                     [m \in TimerTypes |->
                        [timeRemaining |-> getDuration(m, s),
                         isActive |-> IF parsedState.timerMode = m
                                      THEN parsedState.isActive ELSE FALSE]]]
  ELSE [timeRemaining |-> getDuration(mode, s),
        isActive |-> FALSE,
        timerMode |-> mode,
        originalDuration |-> Null,
        hasTimerStates |-> TRUE,
        timerStates |-> FullTimerStates(s)]

\* updateTimerState: JSON.parse of an unreadable record throws inside the
\* try, and then nothing is written
updateTimerState(stor, mode, tr, act, all, s) ==
  IF stor.kind = "invalid"
  THEN stor
  ELSE LET existing == IF stor.kind = "json" THEN stor.value.originalDuration ELSE Null
           original == IF Falsy(existing) THEN getDuration(mode, s) ELSE existing
       IN [kind |-> "json", missing |-> {},
           value |-> TimerRecord(mode, tr, act, original, all)]

\* The value of an expression, computed once
Only(S) == CHOOSE x \in S : TRUE

\* timerStates with the selected mode's entry replaced
WithMode(all, mode, tr, act) ==
  [all EXCEPT ![mode] = [timeRemaining |-> tr, isActive |-> act]]

\* The forEach of the settings-change effect
ModeOrder == <<"pomodoro", "shortBreak", "longBreak">>

\* The loop body declares `const timerMode = mode`, so the timerMode that
\* `mode === timerMode` reads inside the loop is the loop's own mode, not
\* the prop
ComparedMode(mode, prop) == mode

\* updatedTimerStates of the settings-change effect; oldFullDuration is
\* computed from a copy of the same settings object
SettingsEffectStates(all, s) ==
  [m \in TimerTypes |->
     LET currentState == all[m]
         newFullDuration == getDuration(m, s)
         oldFullDuration == getDuration(m, s)
     IN IF currentState.isActive \/ LessThan(currentState.timeRemaining, oldFullDuration)
        THEN LET elapsedTime == MathMax(0, Minus(oldFullDuration, currentState.timeRemaining))
             IN [currentState EXCEPT
                   !.timeRemaining = MathMax(1, Minus(newFullDuration, elapsedTime))]
        ELSE [currentState EXCEPT !.timeRemaining = newFullDuration]]

\* The value of the last setTimeRemaining call of the loop
SettingsEffectDisplay(all, s, prop) ==
  LET calls == SelectSeq(ModeOrder, LAMBDA m : m = ComparedMode(m, prop))
  IN IF calls = <<>> THEN NaN
     ELSE SettingsEffectStates(all, s)[calls[Len(calls)]].timeRemaining

\* First render and mount effects of the component, in source order: the
\* save effect, the isActive effect, the mode effect, the interval effect
\* and the settings-change effect, all closed over the first render.  Of
\* the setTimeRemaining and setTimerStates calls the last ones stand, those
\* of the settings-change effect; each effect writes the whole record with
\* the same mode and settings, so the record left is the one of the last
\* write, with the originalDuration the first write found or set.
TimerMounted(stor, mode, s) ==
  Only({ [timeRemaining |-> SettingsEffectDisplay(savedState.timerStates, s, mode),
          isActive |-> FALSE,
          timerStates |-> updated,
          storage |->
            updateTimerState(
              stor, mode,
              IF Falsy(savedState.timerStates[mode].timeRemaining)
              THEN savedState.timeRemaining
              ELSE savedState.timerStates[mode].timeRemaining,
              savedState.timerStates[mode].isActive, updated, s),
          wasActive |-> savedState.timerStates[mode].isActive] :
         savedState \in {getSavedTimerState(stor, mode, s)},
         updated \in {SettingsEffectStates(getSavedTimerState(stor, mode, s).timerStates, s)} })

\* The render that follows the mount effects: the isActive effect runs
\* again when the first render was active
TimerSettled(m, mode, s) ==
  IF m.wasActive
  THEN LET all == WithMode(m.timerStates, mode, m.timeRemaining, FALSE)
       IN [m EXCEPT !.timerStates = all,
                    !.storage = updateTimerState(m.storage, mode, m.timeRemaining,
                                                 FALSE, all, s)]
  ELSE m

----------------------------------------------------------------------------
(* The App that checks localStorage at startup (App.tsx with isLoading).    *)
(* Its timer state is validated in the format the second PomodoroTimer      *)
(* writes; it renders the timer once isLoading is false.                    *)

\* The "hardcoded 15-minute value" and what it is replaced by
HardcodedSeconds == 900
FixedSeconds == 1500

\* localStorage['pomoSpaceSettings']: absent, or the JSON of a settings object
NoSettings == [kind |-> "none", value |-> DefaultSettings]
SavedSettings(s) == [kind |-> "json", value |-> s]

\* useState initialiser of settings: saved.x || default, no range or type check
InitialSettings(sset) ==
  IF sset.kind = "json"
  THEN LET saved == sset.value
       IN [timerDurations |->
             [m \in TimerTypes |->
                IF Falsy(saved.timerDurations[m])
                THEN DefaultSettings.timerDurations[m]
                ELSE saved.timerDurations[m]],
           longBreakInterval |->
             IF Falsy(saved.longBreakInterval)
             THEN DefaultSettings.longBreakInterval ELSE saved.longBreakInterval,
           lastUpdated |-> TRUE]
  ELSE [DefaultSettings EXCEPT !.lastUpdated = TRUE]

\* !pomodoro || pomodoro < 1 || pomodoro > 60
InvalidPomodoro(p) == Falsy(p) \/ LessThan(p, 1) \/ LessThan(60, p)

\* First effect: the check for the hardcoded 15-minute value
FirstCheck(stor) ==
  IF stor.kind = "invalid"
  THEN [storage |-> NoRecord, reload |-> FALSE]
  ELSE IF stor.kind = "none"
  THEN [storage |-> stor, reload |-> FALSE]
  ELSE LET parsedState == stor.value
           fixStates == /\ parsedState.hasTimerStates
                        /\ StrictEquals(parsedState.timerStates.pomodoro.timeRemaining,
                                        HardcodedSeconds)
           fixMain == /\ parsedState.timerMode = "pomodoro"
                      /\ StrictEquals(parsedState.timeRemaining, HardcodedSeconds)
           p1 == IF fixStates
                 THEN [parsedState EXCEPT !.timerStates.pomodoro.timeRemaining = FixedSeconds]
                 ELSE parsedState
           p2 == IF fixMain THEN [p1 EXCEPT !.timeRemaining = FixedSeconds] ELSE p1
       IN IF fixStates \/ fixMain
          THEN [storage |-> [stor EXCEPT !.value = p2], reload |-> TRUE]
          ELSE [storage |-> stor, reload |-> FALSE]

\* Second effect, once isLoading is false: settings validity, then the
\* stored timer state against the stored settings
SecondCheck(stor, sset) ==
  IF sset.kind = "invalid" \/ (stor.kind = "invalid" /\ sset.kind = "json")
  THEN [storage |-> NoRecord, savedSettings |-> NoSettings, reload |-> TRUE]
  ELSE IF sset.kind = "json" /\ InvalidPomodoro(sset.value.timerDurations.pomodoro)
  THEN [storage |-> NoRecord, savedSettings |-> NoSettings, reload |-> TRUE]
  ELSE IF /\ stor.kind = "json" /\ sset.kind = "json"
          /\ stor.value.timerMode = "pomodoro" /\ ~stor.value.isActive
          /\ LET expectedPomodoroTime ==
                   getDuration("pomodoro", sset.value)
             IN \/ ~stor.value.hasTimerStates
                \/ ~StrictEquals(stor.value.timerStates.pomodoro.timeRemaining,
                                 expectedPomodoroTime)
  THEN [storage |-> NoRecord,
        savedSettings |-> SavedSettings([sset.value EXCEPT !.lastUpdated = TRUE]),
        reload |-> TRUE]
  ELSE [storage |-> stor, savedSettings |-> sset, reload |-> FALSE]

\* Third effect: forces the pomodoro duration to 25 when it is invalid
ThirdCheck(stor, sset) ==
  IF sset.kind = "invalid"
  THEN [storage |-> stor, savedSettings |-> NoSettings, reload |-> FALSE]
  ELSE IF sset.kind = "json" /\ InvalidPomodoro(sset.value.timerDurations.pomodoro)
  THEN [storage |-> NoRecord,
        savedSettings |->
          SavedSettings([InitialSettings(sset) EXCEPT
                           !.timerDurations.pomodoro = DefaultSettings.timerDurations.pomodoro]),
        reload |-> TRUE]
  ELSE [storage |-> stor, savedSettings |-> sset, reload |-> FALSE]

\* One page load, up to the point where React has nothing left to do: the
\* first render with isLoading true and its effects (the first check and the
\* save of the settings state), then, unless the first check asked for a
\* reload, the render with the timer: the timer's mount effects run before
\* the App's second and third check
Startup(stor, sset, mode) ==
  Only({ IF first.reload
         THEN [isLoading |-> TRUE, reloadPending |-> TRUE, mounted |-> FALSE,
               settings |-> s, storage |-> first.storage,
               savedSettings |-> SavedSettings(s),
               timeRemaining |-> 0, isActive |-> FALSE, timerStates |-> NoValue]
         ELSE Only({ Only({ [isLoading |-> FALSE,
                             reloadPending |-> second.reload \/ third.reload,
                             mounted |-> TRUE,
                             settings |-> s,
                             storage |-> settled.storage,
                             savedSettings |-> third.savedSettings,
                             timeRemaining |-> settled.timeRemaining,
                             isActive |-> settled.isActive,
                             timerStates |-> settled.timerStates] :
                            third \in {ThirdCheck(second.storage, second.savedSettings)},
                            settled \in {TimerSettled(
                                           [timer EXCEPT !.storage =
                                              ThirdCheck(second.storage,
                                                         second.savedSettings).storage],
                                           mode, s)} }) :
                     timer \in {TimerMounted(first.storage, mode, s)},
                     second \in {SecondCheck(TimerMounted(first.storage, mode, s).storage,
                                             SavedSettings(s))} }) :
         first \in {FirstCheck(stor)}, s \in {InitialSettings(sset)} })

\* What the second implementation leaves alone
engineVars == <<now, allTimers, timerIntervalRef, onCompleteCalls, completedBy, valid>>

LoadPage ==
  \E r \in {Startup(storage, savedSettings, timerMode)} :
     /\ isLoading' = r.isLoading
     /\ reloadPending' = r.reloadPending
     /\ mounted' = r.mounted
     /\ settings' = r.settings
     /\ storage' = r.storage
     /\ savedSettings' = r.savedSettings
     /\ timeRemaining' = r.timeRemaining
     /\ isActive' = r.isActive
     /\ timerStates' = r.timerStates
     /\ UNCHANGED <<timerMode, engineVars>>

\* The browser opens the page
OpenPage == isLoading /\ ~mounted /\ ~reloadPending /\ LoadPage

\* window.location.reload() takes effect: the document and its React state
\* are discarded, localStorage stays
Reload ==
  /\ reloadPending
  /\ reloadPending' = FALSE
  /\ isLoading' = TRUE
  /\ mounted' = FALSE
  /\ settings' = DefaultSettings
  /\ timeRemaining' = 0
  /\ isActive' = FALSE
  /\ timerStates' = NoValue
  /\ UNCHANGED <<storage, savedSettings, timerMode, engineVars>>

\* Startup is over and the timer is on the page
Ready == mounted /\ ~isLoading /\ ~reloadPending

----------------------------------------------------------------------------
(* The handlers of the second PomodoroTimer, each with the effects that    *)
(* follow it                                                                *)

\* toggleTimer: setIsActive(!isActive); the isActive effect copies the
\* display into the selected mode's entry and saves
toggleTimer ==
  /\ Ready
  /\ LET all == WithMode(timerStates, timerMode, timeRemaining, ~isActive)
     IN /\ isActive' = ~isActive
        /\ timerStates' = all
        /\ storage' = updateTimerState(storage, timerMode, timeRemaining, ~isActive,
                                       all, settings)
  /\ UNCHANGED <<timeRemaining, settings, mounted, timerMode, savedSettings,
                 isLoading, reloadPending, engineVars>>

\* resetTimer of the second implementation; the isActive effect runs only
\* when isActive changed
resetTimerSecond ==
  /\ Ready
  /\ LET full == getDuration(timerMode, settings)
         all == WithMode(timerStates, timerMode, full, FALSE)
     IN /\ timeRemaining' = full
        /\ isActive' = FALSE
        /\ IF isActive
           THEN /\ timerStates' = all
                /\ storage' = updateTimerState(storage, timerMode, full, FALSE,
                                               all, settings)
           ELSE UNCHANGED <<timerStates, storage>>
  /\ UNCHANGED <<settings, mounted, timerMode, savedSettings,
                 isLoading, reloadPending, engineVars>>

\* k callbacks of the 1000 ms interval, none of them the completing one:
\* setTimeRemaining(prev => prev - 1), and the save effect after each
SecondsPass(k) ==
  /\ Ready /\ isActive
  /\ LessThan(k, timeRemaining)
  /\ timeRemaining' = timeRemaining - k
  /\ storage' = updateTimerState(storage, timerMode, timeRemaining - k, TRUE,
                                 WithMode(timerStates, timerMode, timeRemaining - k, TRUE),
                                 settings)
  /\ UNCHANGED <<isActive, timerStates, settings, mounted, timerMode, savedSettings,
                 isLoading, reloadPending, engineVars>>

\* App.handleTimerModeChange(mode) from a tab, and the mode effect
handleTimerModeChange(mode) ==
  /\ Ready
  /\ IF mode = timerMode
     THEN UNCHANGED vars
     ELSE LET shown == timerStates[mode].timeRemaining
              kept == IF Falsy(shown) THEN getDuration(mode, settings) ELSE shown
              all == WithMode(timerStates, mode, kept, FALSE)
              again == WithMode(timerStates, mode, shown, FALSE)
          IN /\ timerMode' = mode
             /\ timeRemaining' = shown
             /\ isActive' = FALSE
             /\ IF isActive
                THEN /\ timerStates' = again
                     /\ storage' = updateTimerState(storage, mode, shown, FALSE, again, settings)
                ELSE /\ timerStates' = all
                     /\ storage' = updateTimerState(storage, mode, timeRemaining, FALSE,
                                                    all, settings)
             /\ UNCHANGED <<settings, mounted, savedSettings, isLoading,
                            reloadPending, engineVars>>

\* SettingsModal.updateTimerDuration with the second PomodoroTimer on the
\* page: the App saves the settings, the settings-change effect runs, and
\* the save effect follows it when the timer is active.  (The
\* settingsChanged mark the modal writes is overwritten by the effect.)
updateTimerDurationSecond(timerType, numValue) ==
  /\ Ready
  /\ IF numValue < 1
     THEN UNCHANGED vars
     ELSE LET s == [settings EXCEPT !.timerDurations[timerType] =
                                       Min(numValue, MaxValue(timerType)),
                                    !.lastUpdated = TRUE]
              updated == SettingsEffectStates(timerStates, s)
              shown == SettingsEffectDisplay(timerStates, s, timerMode)
          IN /\ settings' = s
             /\ savedSettings' = SavedSettings(s)
             /\ timerStates' = updated
             /\ timeRemaining' = shown
             /\ storage' = IF isActive
                           THEN updateTimerState(storage, timerMode, shown, TRUE,
                                                 WithMode(updated, timerMode, shown, TRUE), s)
                           ELSE updateTimerState(storage, timerMode, timeRemaining, FALSE,
                                                 updated, s)
             /\ UNCHANGED <<isActive, mounted, timerMode, isLoading, reloadPending,
                            engineVars>>

----------------------------------------------------------------------------
(* SpecSecond: the App opened on an empty localStorage, and the user at    *)
(* the second PomodoroTimer                                                 *)

\* A browser window about to load the page, with the given localStorage
InitPage(stor, sset, mode) ==
  /\ now = Epoch
  /\ mounted = FALSE
  /\ allTimers = NoValue
  /\ timeRemaining = 0
  /\ timerIntervalRef = NoInterval
  /\ settings = DefaultSettings
  /\ storage = stor
  /\ onCompleteCalls = 0
  /\ completedBy = "none"
  /\ timerMode = mode
  /\ timerStates = NoValue
  /\ isActive = FALSE
  /\ savedSettings = sset
  /\ isLoading = TRUE
  /\ reloadPending = FALSE
  /\ valid = FALSE
  /\ advances = 0
  /\ edits = 0
  /\ events = 0

\* How many seconds the timer is left running: one, and the 5:07 of the
\* comment in the settings-change effect
RunSeconds == {1, 307}

\* What the user types into a duration box: the 27 minutes of that comment
SecondDurationInputs == {27}

PageOpens == OpenPage /\ UNCHANGED budgetVars

NextSecond ==
  \/ PageOpens
  \/ toggleTimer /\ Counted
  \/ resetTimerSecond /\ Counted
  \/ \E mode \in TimerTypes : handleTimerModeChange(mode) /\ Counted
  \/ \E k \in RunSeconds : SecondsPass(k) /\ Advanced
  \/ \E type \in TimerTypes, v \in SecondDurationInputs :
       updateTimerDurationSecond(type, v) /\ Edited

SpecSecond == InitPage(NoRecord, NoSettings, "pomodoro") /\ [][NextSecond]_vars

----------------------------------------------------------------------------
(* C27: in the second PomodoroTimer, when a duration setting changes for a *)
(* timer that is active or partially elapsed, the elapsed time is kept:    *)
(* the mode's new remaining time is the new full duration minus (the old   *)
(* full duration minus the old remaining time).  The old remaining time of *)
(* the selected mode is the displayed one (which, while the timer is       *)
(* paused, is also its entry in timerStates), that of another mode is its  *)
(* entry in timerStates.                                                    *)
C27_DurationEditKeepsElapsed ==
  [][ \A type \in TimerTypes :
        LET oldFull == getDuration(type, settings)
            newFull == getDuration(type, settings')
            oldRemaining == IF type = timerMode THEN timeRemaining
                            ELSE timerStates[type].timeRemaining
        IN ( /\ Ready /\ Ready'
             /\ newFull # oldFull
             /\ (type = timerMode /\ isActive) \/ oldRemaining < oldFull
             /\ oldRemaining <= oldFull
             /\ (type = timerMode /\ ~isActive)
                  => timeRemaining = timerStates[type].timeRemaining )
           => timerStates'[type].timeRemaining = newFull - (oldFull - oldRemaining) ]_vars

(* C28: in the second PomodoroTimer, after the settings-change effect has  *)
(* run (on mount or on a duration edit) the displayed time is the          *)
(* remaining time of the selected mode, and editing a break duration       *)
(* changes neither the displayed nor the kept remaining time of the focus  *)
(* timer.                                                                   *)
C28_DisplayFollowsSelectedMode ==
  [][ /\ ( /\ Ready'
           /\ ~mounted \/ settings'.timerDurations # settings.timerDurations )
         => timeRemaining' = timerStates'[timerMode'].timeRemaining
      /\ ( /\ Ready /\ Ready' /\ timerMode = "pomodoro"
           /\ settings'.timerDurations # settings.timerDurations
           /\ settings'.timerDurations.pomodoro = settings.timerDurations.pomodoro )
         => /\ timeRemaining' = timeRemaining
            /\ timerStates'.pomodoro = timerStates.pomodoro ]_vars

----------------------------------------------------------------------------
(* localStorageUtils.ts: validateLocalStorage and the functions it calls,  *)
(* applied to what a browser may hold under the two keys                    *)

\* What localStorage may hold when the page is opened: timer records whose
\* focus entry is 15:00, 20:00 or 25:00, written in focus or short-break
\* mode, with or without the timerStates of the newer format; and settings
\* whose focus duration is 15, 25, out of range, or not a number at all
StoredSeconds == {900, 1200, 1500}
StoredMinutes == {15, 25, 90, NotNumeric}

StoredRecord(seconds, mode, newFormat, focusActive) ==
  [kind |-> "json", missing |-> {},
   value |-> [timeRemaining |-> seconds,
              isActive |-> FALSE,
              timerMode |-> mode,
              originalDuration |-> seconds,
              hasTimerStates |-> newFormat,
              timerStates |->
                [FullTimerStates(DefaultSettings) EXCEPT
                   !.pomodoro = [timeRemaining |-> seconds, isActive |-> focusActive]]]]

InactiveTimerRecords ==
  {NoRecord, NotJSON} \cup
  { StoredRecord(seconds, mode, newFormat, FALSE) :
      seconds \in StoredSeconds, mode \in {"pomodoro", "shortBreak"},
      newFormat \in BOOLEAN }

StoredTimerRecords ==
  InactiveTimerRecords \cup
  { StoredRecord(seconds, mode, TRUE, TRUE) :
      seconds \in StoredSeconds, mode \in {"pomodoro", "shortBreak"} }

InvalidSettings == [kind |-> "invalid", value |-> DefaultSettings]

StoredSettings ==
  {NoSettings, InvalidSettings} \cup
  { SavedSettings([DefaultSettings EXCEPT !.timerDurations.pomodoro = minutes]) :
      minutes \in StoredMinutes }

\* DEFAULT_SETTINGS, with its lastUpdated stamp
DEFAULT_SETTINGS == [DefaultSettings EXCEPT !.lastUpdated = TRUE]

\* typeof x === 'number' of a value read from JSON
IsNumber(x) == x # NotNumeric /\ x # Null

getSettings(sset) ==
  IF sset.kind # "json"
  THEN DEFAULT_SETTINGS
  ELSE LET savedSettings_ == sset.value
           minutes == savedSettings_.timerDurations.pomodoro
       IN IF ~IsNumber(minutes) \/ minutes < 1 \/ minutes > 60
          THEN DEFAULT_SETTINGS
          ELSE InitialSettings(sset)

createFreshTimerState(currentMode, s) ==
  TimerRecord(currentMode, getDuration(currentMode, s), FALSE,
              getDuration(currentMode, s), FullTimerStates(s))

\* getTimerState: the corrections are made on the parsed copy only
getTimerState(stor, currentMode, s) ==
  IF stor.kind # "json"
  THEN createFreshTimerState(currentMode, s)
  ELSE LET parsedState == stor.value
           p1 == IF currentMode = "pomodoro" /\ ~parsedState.isActive
                 THEN [parsedState EXCEPT !.timeRemaining = getDuration("pomodoro", s)]
                 ELSE parsedState
       IN IF ~p1.hasTimerStates
          THEN [p1 EXCEPT !.hasTimerStates = TRUE, !.timerStates = FullTimerStates(s)]
          ELSE [p1 EXCEPT !.timerStates =
                  [m \in TimerTypes |->
                     IF p1.timerStates[m].isActive
                     THEN p1.timerStates[m]
                     ELSE [p1.timerStates[m] EXCEPT !.timeRemaining = getDuration(m, s)]]]

\* fixHardcodedPomodoroTime: what it leaves in localStorage
fixHardcodedPomodoroTime(stor) ==
  IF stor.kind # "json"
  THEN stor
  ELSE LET parsedState == stor.value
           inStates == /\ parsedState.hasTimerStates
                       /\ StrictEquals(parsedState.timerStates.pomodoro.timeRemaining,
                                       HardcodedSeconds)
           inMain == /\ parsedState.timerMode = "pomodoro"
                     /\ StrictEquals(parsedState.timeRemaining, HardcodedSeconds)
           inOriginal == /\ parsedState.timerMode = "pomodoro"
                         /\ StrictEquals(parsedState.originalDuration, HardcodedSeconds)
       IN [stor EXCEPT
             !.value.timerStates.pomodoro.timeRemaining =
                IF inStates THEN FixedSeconds ELSE @,
             !.value.timeRemaining = IF inMain THEN FixedSeconds ELSE @,
             !.value.originalDuration = IF inOriginal THEN FixedSeconds ELSE @]

\* validateLocalStorage(): its return value and what it leaves stored
validateLocalStorage ==
  LET fixed == fixHardcodedPomodoroTime(storage)
      s == getSettings(savedSettings)
      timerState == getTimerState(fixed, "pomodoro", s)
      correctPomodoroTime == getDuration("pomodoro", s)
  IN /\ IF /\ timerState.timerMode = "pomodoro"
           /\ ~timerState.isActive
           /\ ~StrictEquals(timerState.timerStates.pomodoro.timeRemaining,
                            correctPomodoroTime)
        THEN /\ savedSettings' = SavedSettings(DEFAULT_SETTINGS)
             /\ storage' = [kind |-> "json", missing |-> {},
                            value |-> createFreshTimerState("pomodoro", DEFAULT_SETTINGS)]
             /\ valid' = FALSE
        ELSE /\ storage' = fixed
             /\ valid' = TRUE
             /\ UNCHANGED savedSettings
     /\ UNCHANGED <<now, mounted, allTimers, timeRemaining, timerIntervalRef, settings,
                    onCompleteCalls, completedBy, timerMode, timerStates, isActive,
                    isLoading, reloadPending>>

NextValidate ==
  \/ validateLocalStorage /\ Counted

InitValidate ==
  \E stor \in StoredTimerRecords, sset \in StoredSettings : InitPage(stor, sset, "pomodoro")

SpecValidate == InitValidate /\ [][NextValidate]_vars

(* C29: whenever validateLocalStorage has returned true, the timer state   *)
(* stored in localStorage agrees with the stored settings: if its          *)
(* timerMode is pomodoro and it is not active, the stored pomodoro         *)
(* remaining time is the settings' pomodoro minutes x 60, for every stored *)
(* pomodoro setting from 1 to 60 minutes.  (In a record of the old format, *)
(* without timerStates, the pomodoro remaining time is its timeRemaining.) *)
C29_ValidMeansStoredStateConsistent ==
  ( /\ valid
    /\ savedSettings.kind = "json"
    /\ IsNumber(savedSettings.value.timerDurations.pomodoro)
    /\ savedSettings.value.timerDurations.pomodoro \in 1..60
    /\ storage.kind = "json"
    /\ storage.value.timerMode = "pomodoro"
    /\ ~storage.value.isActive )
  => LET stored == IF storage.value.hasTimerStates
                   THEN storage.value.timerStates.pomodoro.timeRemaining
                   ELSE storage.value.timeRemaining
     IN stored = savedSettings.value.timerDurations.pomodoro * SecondsPerMinute

----------------------------------------------------------------------------
(* SpecStartup: the App opened on whatever localStorage holds, and the     *)
(* reloads its startup effects ask for.  The browser carries out a reload  *)
(* that was asked for, hence the fairness conditions.                       *)

PageReloads == Reload /\ UNCHANGED budgetVars

NextStartup ==
  \/ PageOpens
  \/ PageReloads

InitStartup ==
  \E stor \in InactiveTimerRecords, sset \in StoredSettings, mode \in TimerTypes :
    InitPage(stor, sset, mode)

SpecStartup ==
  InitStartup /\ [][NextStartup]_vars /\ WF_vars(PageOpens) /\ WF_vars(PageReloads)

(* C30: for any initial content of localStorage (absent, unparseable,      *)
(* old-format, or timer state and settings that disagree) the App's        *)
(* startup effects ask for finitely many page reloads only, and then the   *)
(* page stays with isLoading = false and the timer rendered.                *)
C30_StartupReloadsFinitelyOften == <>[]Ready

====
